---------------------------- MODULE Spec2Model ----------------------------
(***************************************************************************)
(* Model of airflow/dags/utils/python_scripts.py: the Chess.com ETL tasks  *)
(* extract_and_load_chess_data (bronze), transform_json_to_fact_table      *)
(* (silver), load_dim_* and load_fact_table (gold).                        *)
(*                                                                         *)
(* A blob of the container is a record [exists, rows]; rows is a bag (a    *)
(* table is an unordered multiset of rows).  SQL NULL is NullStr for a     *)
(* text column.  Text that the code parses (the PGN Date/EndDate/StartTime *)
(* /EndTime tags) is a sequence of tokens, e.g. "2024.01.31" is            *)
(* <<"2024", ".", "01", ".", "31">>, and '' is the empty sequence.         *)
(***************************************************************************)
EXTENDS Integers, Sequences, FiniteSets, Bags, TLC

VARIABLES
    pc,                \* position of the DAG run: "idle", "fetched", "gold", "failed"
    runs,              \* number of DAG runs started so far
    batch,             \* <<year, month>> of the current run
    status_code,       \* response.status_code of the last fetch
    bronze,            \* bronze/{year}-{month:02}-games.json, per batch
    silver,            \* silver/fact-{year}-{month:02}-games.parquet of the current run
    dim_openings,      \* gold/dim_openings.parquet
    dim_date,          \* gold/dim_date.parquet
    dim_time_control,  \* gold/dim_time_control.parquet
    dim_results,       \* gold/dim_results.parquet
    fact,              \* gold/fact-games.parquet
    done,              \* dimension tasks that have run in the current DAG run
    prev_fact_table,   \* load_fact_table's local prev_fact_table (the snapshot it read)
    exec_date,         \* kwargs["exec_date"] of the last load_fact_table
    run_start,         \* the five gold blobs as they were when the current DAG run started
    worker,            \* the task locals of each of two DAG runs that execute concurrently
    overlapped         \* sinks whose read-merge-write by the two runs overlapped

vars == <<pc, runs, batch, status_code, bronze, silver, dim_openings, dim_date,
          dim_time_control, dim_results, fact, done, prev_fact_table, exec_date,
          run_start, worker, overlapped>>

\* the cumulative sinks of the gold layer
GoldSinks == <<dim_openings, dim_date, dim_time_control, dim_results, fact>>

-----------------------------------------------------------------------------
(* Bounds *)

\* DAG runs in a behaviour
MaxRuns == 2
\* games in one API response
MaxBatch == 2

-----------------------------------------------------------------------------
(* Tables and SQL primitives *)

NullStr == "<NULL>"

NoFile == [exists |-> FALSE, rows |-> EmptyBag]

File(b) == [exists |-> TRUE, rows |-> b]

check_for_blob(f) == f.exists

Rows(f) == BagToSet(f.rows)

Range(s) == {s[i] : i \in DOMAIN s}

SeqToBag(s) == [e \in Range(s) |-> Cardinality({i \in DOMAIN s : s[i] = e})]

\* all bags of at most n elements of S
BagsUpTo(S, n) == {SeqToBag(s) : s \in UNION {[1..k -> S] : k \in 0..n}}

\* SELECT DISTINCT / UNION: a table without duplicate rows
Distinct(S) == SetToBag(S)

\* x NOT IN (subquery) is TRUE only when it is neither FALSE nor NULL
NotIn(x, S, null) ==
    \/ S = {}
    \/ /\ x # null
       /\ null \notin S
       /\ x \notin S

-----------------------------------------------------------------------------
(* Inputs: the games the API can return *)

\* the (year, month) batches the DAG is run for
BatchIds == {<<2024, 1>>}

StatusCodes == {200, 404}

Tags == {"Event", "Site", "Date", "White", "Black", "Result", "CurrentPosition",
         "Timezone", "ECO", "ECOUrl", "StartTime", "EndTime", "EndDate"}

ParsedTags == {"Date", "EndDate", "StartTime", "EndTime"}

ItalianUrl == "https://www.chess.com/openings/Italian-Game"
SicilianUrl == "https://www.chess.com/openings/Sicilian-Defense"

Pgn(date, start, enddate, end, white, black, eco, ecourl) ==
    [Event |-> "Live Chess", Site |-> "Chess.com", Date |-> date, White |-> white,
     Black |-> black, Result |-> "1-0", CurrentPosition |-> "fen", Timezone |-> "UTC",
     ECO |-> eco, ECOUrl |-> ecourl, StartTime |-> start, EndTime |-> end,
     EndDate |-> enddate]

\* the pgn without one of its tags
Without(pgn, tag) == [t \in (DOMAIN pgn) \ {tag} |-> pgn[t]]

Game(url, tc, class, wr, wres, br, bres, pgn) ==
    [url |-> url, time_control |-> tc, time_class |-> class,
     white |-> [rating |-> wr, result |-> wres],
     black |-> [rating |-> br, result |-> bres], pgn |-> pgn]

\* a game that crosses midnight (and the month): 23:58:00 to 00:03:00
Game1 ==
    Game("u1", "600", "blitz", 1500, "win", 1480, "resigned",
         Pgn(<<"2024", ".", "01", ".", "31">>, <<"23", ":", "58", ":", "00">>,
             <<"2024", ".", "02", ".", "01">>, <<"00", ":", "03", ":", "00">>,
             "Rhythmbear1", "opp", "C50", ItalianUrl))

\* the same game URL fetched again, with another rating and another time class for
\* the same time control
Game2 == [Game1 EXCEPT !.white.rating = 1510, !.time_class = "rapid"]

\* no time control, a result code outside dim_results, no ECO tags; crosses the year
Game3 ==
    Game("u3", NullStr, "daily", 1500, "unknown_code", 1520, "win",
         Without(Without(
           Pgn(<<"2023", ".", "12", ".", "31">>, <<"23", ":", "59", ":", "59">>,
               <<"2024", ".", "01", ".", "01">>, <<"00", ":", "00", ":", "01">>,
               "Rhythmbear1", "opp", "", ""), "ECO"), "ECOUrl"))

Games == {Game1, Game2, Game3}

-----------------------------------------------------------------------------
(* extract_and_load_chess_data *)

\* f"bronze/{year}-{int(month):02}-games.json": one bronze blob per batch
BronzeBlob(b) == b

\* lines 53-61: the JSON "games" list of a 200 response, [] for any other status
PulledData(status, games) == IF status = 200 THEN games ELSE EmptyBag

extract_and_load_chess_data ==
    /\ pc = "idle"
    /\ runs < MaxRuns
    /\ \E b \in BatchIds, status \in StatusCodes, games \in BagsUpTo(Games, MaxBatch) :
          /\ status # 200 => games = EmptyBag
          /\ batch' = b
          /\ status_code' = status
          \* lines 64-76: the blob is uploaded with overwrite=True on every path
          /\ bronze' = [bronze EXCEPT ![BronzeBlob(b)] = File(PulledData(status, games))]
    \* line 79: returns True, the DAG goes on to transform_json_to_fact_table
    /\ pc' = "fetched"
    /\ runs' = runs + 1
    /\ run_start' = GoldSinks
    /\ UNCHANGED <<worker, overlapped>>
    /\ UNCHANGED <<silver, dim_openings, dim_date, dim_time_control, dim_results, fact,
                   done, prev_fact_table, exec_date>>

-----------------------------------------------------------------------------
(* transform_json_to_fact_table *)

Numeral ==
    ("00" :> 0 @@ "01" :> 1 @@ "02" :> 2 @@ "03" :> 3 @@ "10" :> 10 @@ "12" :> 12 @@
     "23" :> 23 @@ "29" :> 29 @@ "31" :> 31 @@ "58" :> 58 @@ "59" :> 59 @@
     "2023" :> 2023 @@ "2024" :> 2024)

\* the text of a number, as %Y, %m, %d, %H, %M, %S print it
NumText(n) == CHOOSE s \in DOMAIN Numeral : Numeral[s] = n

\* REGEXP_EXTRACT(pgn, '\[Tag "(.*?)"', 1): the tag's text, '' when nothing matches
REGEXP_EXTRACT(pgn, tag) ==
    IF tag \in DOMAIN pgn THEN pgn[tag]
    ELSE IF tag \in ParsedTags THEN <<>> ELSE ""

REPLACE(text, from, to) == [i \in DOMAIN text |-> IF text[i] = from THEN to ELSE text[i]]

\* whether text is three numbers separated by sep
Matches(text, sep) ==
    /\ Len(text) = 5
    /\ text[2] = sep /\ text[4] = sep
    /\ \A i \in {1, 3, 5} : text[i] \in DOMAIN Numeral

\* STRPTIME(text, fmt) raises when the text does not match the format
StrptimeRaises(text, sep) == ~Matches(text, sep)

STRPTIME(text, sep) == <<Numeral[text[1]], Numeral[text[3]], Numeral[text[5]]>>

GameDateText(pgn) == REPLACE(REGEXP_EXTRACT(pgn, "Date"), ".", "/")
EndGameDateText(pgn) == REPLACE(REGEXP_EXTRACT(pgn, "EndDate"), ".", "/")

\* lines 169-195: whether the SELECT raises on this game
SelectRaises(g) ==
    \/ StrptimeRaises(GameDateText(g.pgn), "/")
    \/ StrptimeRaises(REGEXP_EXTRACT(g.pgn, "StartTime"), ":")
    \/ StrptimeRaises(REGEXP_EXTRACT(g.pgn, "EndTime"), ":")
    \/ StrptimeRaises(EndGameDateText(g.pgn), "/")

\* astype(str) of a DATE and of a TIME column
DateStr(d) == <<NumText(d[1]), "-", NumText(d[2]), "-", NumText(d[3])>>
TimeStr(t) == <<NumText(t[1]), ":", NumText(t[2]), ":", NumText(t[3])>>

\* pd.to_datetime(text, format="%Y-%m-%d %H:%M:%S")
to_datetime(text) ==
    [date |-> <<Numeral[text[1]], Numeral[text[3]], Numeral[text[5]]>>,
     time |-> <<Numeral[text[7]], Numeral[text[9]], Numeral[text[11]]>>]

\* lines 198-201
StartTimestamp(game_date, start_time) ==
    to_datetime(DateStr(game_date) \o <<" ">> \o TimeStr(start_time))

\* the end timestamp taken to be on the day the game started instead
EndTimestampSameDay(game_date, end_game_date, end_time) ==
    to_datetime(DateStr(game_date) \o <<" ">> \o TimeStr(end_time))

\* lines 202-205
EndTimestamp(game_date, end_game_date, end_time) ==
    to_datetime(DateStr(end_game_date) \o <<" ">> \o TimeStr(end_time))

\* lines 169-205: the silver row of one game
SilverRow(g) ==
    LET game_date == STRPTIME(GameDateText(g.pgn), "/")
        start_time == STRPTIME(REGEXP_EXTRACT(g.pgn, "StartTime"), ":")
        end_time == STRPTIME(REGEXP_EXTRACT(g.pgn, "EndTime"), ":")
        end_game_date == STRPTIME(EndGameDateText(g.pgn), "/")
    IN  [game_url |-> g.url,
         time_control |-> g.time_control,
         time_class |-> g.time_class,
         white_rating |-> g.white.rating,
         white_result |-> g.white.result,
         black_rating |-> g.black.rating,
         black_result |-> g.black.result,
         pgn_event |-> REGEXP_EXTRACT(g.pgn, "Event"),
         pgn_site |-> REGEXP_EXTRACT(g.pgn, "Site"),
         game_date |-> game_date,
         pgn_white_user |-> REGEXP_EXTRACT(g.pgn, "White"),
         pgn_black_user |-> REGEXP_EXTRACT(g.pgn, "Black"),
         pgn_result |-> REGEXP_EXTRACT(g.pgn, "Result"),
         pgn_current_position |-> REGEXP_EXTRACT(g.pgn, "CurrentPosition"),
         pgn_timezone |-> REGEXP_EXTRACT(g.pgn, "Timezone"),
         pgn_eco |-> REGEXP_EXTRACT(g.pgn, "ECO"),
         pgn_eco_url |-> REGEXP_EXTRACT(g.pgn, "ECOUrl"),
         start_time |-> StartTimestamp(game_date, start_time),
         end_time |-> EndTimestamp(game_date, end_game_date, end_time),
         end_game_date |-> end_game_date]

\* the whole query raises when one row does
TransformRaises(games) == \E g \in BagToSet(games) : SelectRaises(g)

Transformed(games) == BagOfAll(SilverRow, games)

transform_json_to_fact_table ==
    /\ pc = "fetched"
    /\ LET games == bronze[BronzeBlob(batch)].rows
       IN  \/ /\ TransformRaises(games)
              /\ pc' = "failed"
              /\ UNCHANGED silver
           \/ /\ games = EmptyBag
              \* a JSON file holding [] gives the engine no columns to select from:
              \* the query raises, or (next disjunct) yields no rows
              /\ pc' = "failed"
              /\ UNCHANGED silver
           \/ /\ ~TransformRaises(games)
              /\ silver' = File(Transformed(games))
              /\ pc' = "gold"
    /\ done' = {}
    /\ UNCHANGED <<run_start, worker, overlapped>>
    /\ UNCHANGED <<runs, batch, status_code, bronze, dim_openings, dim_date,
                   dim_time_control, dim_results, fact, prev_fact_table, exec_date>>

\* the scheduler starts the next DAG run after a failed one
NextRun ==
    /\ pc = "failed"
    /\ pc' = "idle"
    /\ UNCHANGED <<run_start, worker, overlapped>>
    /\ UNCHANGED <<runs, batch, status_code, bronze, silver, dim_openings, dim_date,
                   dim_time_control, dim_results, fact, done, prev_fact_table, exec_date>>

-----------------------------------------------------------------------------
(* User-defined functions of utils/udfs.py *)

\* "600" is ten minutes; an absent code is "Unlimited"; other codes pass through
format_time_control(tc) ==
    CASE tc = NullStr -> "Unlimited"
      [] tc = "600" -> "10 min"
      [] OTHER -> tc

\* the slug of the opening URL with its separators replaced by spaces
extract_opening_name(url) ==
    CASE url = ItalianUrl -> "Italian Game"
      [] url = SicilianUrl -> "Sicilian Defense"
      [] OTHER -> url

get_opening_family(name) == name

get_opening_variation(name) == ""

-----------------------------------------------------------------------------
(* load_dim_openings *)

OpeningRow(r) ==
    [pgn_eco_url |-> r.pgn_eco_url,
     opening_name |-> extract_opening_name(r.pgn_eco_url),
     opening_family |-> get_opening_family(extract_opening_name(r.pgn_eco_url)),
     opening_variation |-> get_opening_variation(extract_opening_name(r.pgn_eco_url)),
     eco_code |-> r.pgn_eco]

\* the rows of the batch only instead
OpeningsReplaced(dest, source) == Distinct({OpeningRow(r) : r \in Rows(source)})

\* lines 257-273: the sink exists
OpeningsMerged(dest, source) ==
    Distinct({OpeningRow(r) : r \in {x \in Rows(source) :
                 NotIn(x.pgn_eco_url, {d.pgn_eco_url : d \in Rows(dest)}, NullStr)}}
             \cup Rows(dest))

\* lines 275-282: no sink yet
OpeningsFirst(source) == Distinct({OpeningRow(r) : r \in Rows(source)})

load_dim_openings ==
    /\ pc = "gold"
    /\ dim_openings' = File(IF check_for_blob(dim_openings)
                            THEN OpeningsMerged(dim_openings, silver)
                            ELSE OpeningsFirst(silver))
    /\ done' = done \cup {"openings"}
    /\ UNCHANGED <<run_start, worker, overlapped>>
    /\ UNCHANGED <<pc, runs, batch, status_code, bronze, silver, dim_date,
                   dim_time_control, dim_results, fact, prev_fact_table, exec_date>>

-----------------------------------------------------------------------------
(* load_dim_date *)

NullDate == <<>>

\* days from 1970-01-01 to the date <<y, m, d>>
DayNumber(date) ==
    LET y == IF date[2] <= 2 THEN date[1] - 1 ELSE date[1]
        mp == IF date[2] > 2 THEN date[2] - 3 ELSE date[2] + 9
        era == y \div 400
        yoe == y - era * 400
        doy == (153 * mp + 2) \div 5 + date[3] - 1
        doe == yoe * 365 + yoe \div 4 - yoe \div 100 + doy
    IN  era * 146097 + doe - 719468

MonthName == <<"January", "February", "March", "April", "May", "June", "July",
               "August", "September", "October", "November", "December">>

WeekdayName == <<"Sunday", "Monday", "Tuesday", "Wednesday", "Thursday", "Friday",
                 "Saturday">>

Quarter(month) ==
    IF month <= 3 THEN 1 ELSE IF month <= 6 THEN 2 ELSE IF month <= 9 THEN 3 ELSE 4

DateRow(game_date) ==
    [game_date |-> game_date,
     year |-> game_date[1],
     month |-> game_date[2],
     month_name |-> MonthName[game_date[2]],
     day |-> game_date[3],
     weekday |-> WeekdayName[((DayNumber(game_date) + 4) % 7) + 1],
     quarter |-> Quarter(game_date[2])]

\* lines 326-348: the sink exists
DatesMerged(dest, source) ==
    Distinct({DateRow(r.game_date) : r \in {x \in Rows(source) :
                 NotIn(x.game_date, {d.game_date : d \in Rows(dest)}, NullDate)}}
             \cup Rows(dest))

\* lines 351-366: no sink yet
DatesFirst(source) == Distinct({DateRow(r.game_date) : r \in Rows(source)})

load_dim_date ==
    /\ pc = "gold"
    /\ dim_date' = File(IF check_for_blob(dim_date)
                        THEN DatesMerged(dim_date, silver)
                        ELSE DatesFirst(silver))
    /\ done' = done \cup {"date"}
    /\ UNCHANGED <<run_start, worker, overlapped>>
    /\ UNCHANGED <<pc, runs, batch, status_code, bronze, silver, dim_openings,
                   dim_time_control, dim_results, fact, prev_fact_table, exec_date>>

-----------------------------------------------------------------------------
(* load_dim_time_control *)

TimeControlRow(r) ==
    [time_control |-> format_time_control(r.time_control), time_class |-> r.time_class]

\* lines 403-411: the sink exists.  WHERE time_control names the source's column (the
\* raw code), not the SELECT's alias
TimeControlsMerged(dest, source) ==
    Distinct({TimeControlRow(r) : r \in {x \in Rows(source) :
                 NotIn(x.time_control, {d.time_control : d \in Rows(dest)}, NullStr)}}
             \cup Rows(dest))

\* lines 414-418: no sink yet; the SELECT has no DISTINCT
TimeControlsFirst(source) == BagOfAll(TimeControlRow, source.rows)

load_dim_time_control ==
    /\ pc = "gold"
    /\ dim_time_control' = File(IF check_for_blob(dim_time_control)
                                THEN TimeControlsMerged(dim_time_control, silver)
                                ELSE TimeControlsFirst(silver))
    /\ done' = done \cup {"time_control"}
    /\ UNCHANGED <<run_start, worker, overlapped>>
    /\ UNCHANGED <<pc, runs, batch, status_code, bronze, silver, dim_openings, dim_date,
                   dim_results, fact, prev_fact_table, exec_date>>

-----------------------------------------------------------------------------
(* load_dim_results *)

ResultRow(code, result, description) ==
    [result_code |-> code, result |-> result, description |-> description]

\* lines 454-486
StaticResults ==
    SetToBag({ResultRow("win", "Win", "Win"),
              ResultRow("checkmated", "Loss", "Checkmated"),
              ResultRow("agreed", "Draw", "Draw agreed"),
              ResultRow("repetition", "Draw", "Draw by repetition"),
              ResultRow("timeout", "Win", "Timeout"),
              ResultRow("resigned", "Loss", "Resigned"),
              ResultRow("stalemate", "Draw", "Stalemate"),
              ResultRow("lose", "Loss", "Lose"),
              ResultRow("insufficient", "Draw", "Insufficient material"),
              ResultRow("50move", "Draw", "Draw by 50-move rule"),
              ResultRow("abandoned", "Draw", "Abandoned"),
              ResultRow("kingofthehill", "Win", "Opponent king reached the hill"),
              ResultRow("threecheck", "Win", "Checked for the 3rd time"),
              ResultRow("timevsinsufficient", "Draw",
                        "Draw by timeout vs insufficient material"),
              ResultRow("bughousepartnerlose", "Loss", "Bughouse partner lost")})

load_dim_results ==
    /\ pc = "gold"
    \* line 488: the upload is in the else branch; an existing sink is read and left alone
    /\ dim_results' = IF check_for_blob(dim_results) THEN dim_results
                      ELSE File(StaticResults)
    /\ done' = done \cup {"results"}
    /\ UNCHANGED <<run_start, worker, overlapped>>
    /\ UNCHANGED <<pc, runs, batch, status_code, bronze, silver, dim_openings, dim_date,
                   dim_time_control, fact, prev_fact_table, exec_date>>

-----------------------------------------------------------------------------
(* load_fact_table *)

AllDims == {"openings", "date", "time_control", "results"}

\* the values kwargs["exec_date"] takes, as ordered instants
ExecDates == {1, 2}

MyUsername == "Rhythmbear1"

\* seconds from 1970-01-01 00:00:00 to the timestamp
EpochSeconds(ts) ==
    DayNumber(ts.date) * 86400 + ts.time[1] * 3600 + ts.time[2] * 60 + ts.time[3]

\* date_diff('seconds', start_time, end_time)
date_diff(start_time, end_time) == EpochSeconds(end_time) - EpochSeconds(start_time)

\* lines 535-564: the fct row of one silver row
FctRow(r, exec) ==
    LET white == r.pgn_white_user = MyUsername
    IN  [game_url |-> r.game_url,
         game_date |-> r.game_date,
         start_time |-> r.start_time,
         end_time |-> r.end_time,
         game_duration_secs |-> date_diff(r.start_time, r.end_time),
         time_control |-> format_time_control(r.time_control),
         my_color |-> IF white THEN "white" ELSE "black",
         my_username |-> IF white THEN r.pgn_white_user ELSE r.pgn_black_user,
         opponent_username |-> IF white THEN r.pgn_black_user ELSE r.pgn_white_user,
         my_rating |-> IF white THEN r.white_rating ELSE r.black_rating,
         opponent_rating |-> IF white THEN r.black_rating ELSE r.white_rating,
         my_result |-> IF white THEN r.white_result ELSE r.black_result,
         opponent_result |-> IF white THEN r.black_result ELSE r.white_result,
         game_fen |-> r.pgn_current_position,
         opening_url |-> r.pgn_eco_url,
         last_updated |-> exec]

Fct(source, exec) == BagOfAll(LAMBDA r : FctRow(r, exec), source.rows)

\* the number of rows of the dimension whose key column equals k (NULL equals nothing)
Matching(dim, column, k, null) ==
    IF k = null THEN 0
    ELSE BagCardinality([d \in {x \in Rows(dim) : x[column] = k} |-> dim.rows[d]])

\* an inner join instead: an unmatched row is dropped
InnerJoinCopies(n) == n

\* a LEFT JOIN keeps an unmatched row once and a matched row once per match
LeftJoinCopies(n) == IF n = 0 THEN 1 ELSE n

\* the copies of fct row f that fact.* of the five LEFT JOINs holds
JoinedCopies(f, ddate, dopenings, dresults, dtime_control) ==
    LeftJoinCopies(Matching(ddate, "game_date", f.game_date, NullDate))
    * LeftJoinCopies(Matching(dopenings, "pgn_eco_url", f.opening_url, NullStr))
    * LeftJoinCopies(Matching(dresults, "result_code", f.my_result, NullStr))
    * LeftJoinCopies(Matching(dresults, "result_code", f.opponent_result, NullStr))
    * LeftJoinCopies(Matching(dtime_control, "time_control", f.time_control, NullStr))

\* lines 566-573: fact.* of fct left-joined to the four dimension snapshots
FactTable(fct, ddate, dopenings, dresults, dtime_control) ==
    [f \in {x \in BagToSet(fct) :
               JoinedCopies(x, ddate, dopenings, dresults, dtime_control) > 0} |->
        fct[f] * JoinedCopies(f, ddate, dopenings, dresults, dtime_control)]

\* lines 580-582: UNION ALL
BothTables(prev, fact_table) == prev (+) fact_table

\* ORDER BY last_updated ASC instead
RankedFirstAscending(r, rows) ==
    \A q \in rows : q.game_url = r.game_url => q.last_updated >= r.last_updated

\* ORDER BY last_updated DESC: r can get rn = 1 in its partition of rows
RankedFirst(r, rows) ==
    \A q \in rows : q.game_url = r.game_url => q.last_updated <= r.last_updated

\* lines 584-593: the results WHERE rn = 1 can give: one row per game_url, any of the
\* rows that ROW_NUMBER() may rank first (rows with equal last_updated are in no order)
Deduplicated(both_tables) ==
    LET rows == BagToSet(both_tables)
        urls == {r.game_url : r \in rows}
    IN  {SetToBag(S) : S \in {T \in SUBSET {r \in rows : RankedFirst(r, rows)} :
            \A u \in urls : Cardinality({r \in T : r.game_url = u}) = 1}}

\* lines 576-601: the snapshots the run can write
NewFactTables(prev, fact_table) ==
    IF check_for_blob(prev)
    THEN Deduplicated(BothTables(prev.rows, fact_table))
    ELSE {fact_table}

load_fact_table ==
    /\ pc = "gold"
    \* the DAG runs load_fact_table after the four dimension tasks
    /\ done = AllDims
    /\ \E exec \in ExecDates :
          /\ exec_date' = exec
          /\ \E new \in NewFactTables(fact,
                   FactTable(Fct(silver, exec), dim_date, dim_openings, dim_results,
                             dim_time_control)) :
                fact' = File(new)
    /\ prev_fact_table' = fact
    /\ pc' = "idle"
    /\ UNCHANGED <<run_start, worker, overlapped>>
    /\ UNCHANGED <<runs, batch, status_code, bronze, silver, dim_openings, dim_date,
                   dim_time_control, dim_results, done>>

-----------------------------------------------------------------------------
(* The pipeline *)

Init ==
    /\ pc = "idle"
    /\ runs = 0
    /\ batch = <<2024, 1>>
    /\ status_code = 200
    /\ bronze = [b \in BatchIds |-> NoFile]
    /\ silver = NoFile
    /\ dim_openings = NoFile
    /\ dim_date = NoFile
    /\ dim_time_control = NoFile
    /\ dim_results = NoFile
    /\ fact = NoFile
    /\ done = {}
    /\ prev_fact_table = NoFile
    /\ exec_date = 1
    /\ run_start = GoldSinks
    /\ worker = <<>>
    /\ overlapped = {}

Next ==
    \/ extract_and_load_chess_data
    \/ transform_json_to_fact_table
    \/ load_dim_openings
    \/ load_dim_date
    \/ load_dim_time_control
    \/ load_dim_results
    \/ load_fact_table
    \/ NextRun

Spec == Init /\ [][Next]_vars

-----------------------------------------------------------------------------
(* The transform and one gold load, over games with a tag missing *)

Drop(g, tag) == [g EXCEPT !.pgn = Without(g.pgn, tag)]

\* starts and ends on the same day
GameSameDay ==
    Game("u2", "600", "rapid", 1490, "win", 1505, "checkmated",
         Pgn(<<"2024", ".", "02", ".", "01">>, <<"10", ":", "00", ":", "00">>,
             <<"2024", ".", "02", ".", "01">>, <<"10", ":", "10", ":", "00">>,
             "opp", "Rhythmbear1", "B20", SicilianUrl))

\* ends on the day after a leap day
GameLeap ==
    Game("u4", "180+2", "blitz", 1500, "win", 1480, "timeout",
         Pgn(<<"2024", ".", "02", ".", "29">>, <<"23", ":", "59", ":", "00">>,
             <<"2024", ".", "03", ".", "01">>, <<"00", ":", "02", ":", "00">>,
             "opp", "Rhythmbear1", "B20", SicilianUrl))

ParseGames == {Game1, Game3, GameSameDay, GameLeap} \cup {Drop(Game1, t) : t \in Tags}

InitParse ==
    /\ pc = "fetched"
    /\ runs = 1
    /\ batch = <<2024, 1>>
    /\ status_code = 200
    /\ \E games \in BagsUpTo(ParseGames, MaxBatch) :
          bronze = [b \in BatchIds |-> IF b = batch THEN File(games) ELSE NoFile]
    /\ silver = NoFile
    /\ dim_openings = NoFile
    /\ dim_date = NoFile
    /\ dim_time_control = NoFile
    /\ dim_results = NoFile
    /\ fact = NoFile
    /\ done = {}
    /\ prev_fact_table = NoFile
    /\ exec_date = 1
    /\ run_start = GoldSinks
    /\ worker = <<>>
    /\ overlapped = {}

NextParse ==
    \/ transform_json_to_fact_table
    \/ load_dim_openings
    \/ load_dim_date
    \/ load_dim_time_control
    \/ load_dim_results
    \/ load_fact_table
    \/ NextRun

SpecParse == InitParse /\ [][NextParse]_vars

-----------------------------------------------------------------------------
(* Failing tasks *)

\* A gold task raises (a storage failure in check_for_blob, in the query or in
\* load_file, lines 144-149): the blob the task was to overwrite keeps its content,
\* load_file replacing the whole blob or nothing, and the DAG run fails.  The blobs
\* that earlier tasks of the run uploaded stay as those tasks left them.
SinkWriteError ==
    /\ pc = "gold"
    /\ pc' = "failed"
    /\ UNCHANGED <<runs, batch, status_code, bronze, silver, dim_openings, dim_date,
                   dim_time_control, dim_results, fact, done, prev_fact_table, exec_date,
                   run_start, worker, overlapped>>

NextFail ==
    \/ Next
    \/ SinkWriteError

SpecFail == Init /\ [][NextFail]_vars

-----------------------------------------------------------------------------
(* Two DAG runs at once *)

(* Two DAG runs for different batches execute their gold tasks as independent   *)
(* processes on the same blobs.  A task that merges into a sink makes three     *)
(* accesses: check_for_blob, the query that reads the sink (fetchdf), and       *)
(* load_file with overwrite=True; each is one step here, and steps of the two   *)
(* runs interleave.  The date, time-control and result tasks are one step each. *)
(* worker[r] holds run r's position, its silver file, and the locals            *)
(* file_exists and df (the fetched frame that load_file uploads).               *)

RaceRuns == {1, 2}

\* the gold blobs after a first complete run on silver file source, or no blobs
FirstRun(source) ==
    LET dopenings == File(OpeningsFirst(source))
        ddate == File(DatesFirst(source))
        dtime_control == File(TimeControlsFirst(source))
        dresults == File(StaticResults)
    IN  <<dopenings, ddate, dtime_control, dresults,
          File(FactTable(Fct(source, 1), ddate, dopenings, dresults, dtime_control))>>

Snapshots == {<<NoFile, NoFile, NoFile, NoFile, NoFile>>,
              FirstRun(File(Transformed(SetToBag({Game1}))))}

\* the positions of a run between its check_for_blob of a sink and the end of its upload
Merging == [openings |-> {"openings_select", "openings_upload"},
            fact |-> {"fact_select", "fact_upload"}]

\* run r starts its read-merge-write of sink while the other run is inside its own
Overlaps(r, sink) == \E o \in RaceRuns \ {r} : worker[o].pc \in Merging[sink]

raceFrame == <<pc, runs, batch, status_code, bronze, silver, done, prev_fact_table,
               exec_date, run_start>>

\* line 252
load_dim_openings_check(r) ==
    /\ worker[r].pc = "openings_check"
    /\ worker' = [worker EXCEPT ![r].pc = "openings_select",
                                ![r].file_exists = check_for_blob(dim_openings)]
    /\ overlapped' = IF Overlaps(r, "openings") THEN overlapped \cup {"openings"}
                     ELSE overlapped
    /\ UNCHANGED <<raceFrame, GoldSinks>>

\* lines 256-282: fetchdf
load_dim_openings_select(r) ==
    /\ worker[r].pc = "openings_select"
    /\ worker' = [worker EXCEPT ![r].pc = "openings_upload",
                                ![r].df = IF worker[r].file_exists
                                          THEN OpeningsMerged(dim_openings, worker[r].silver)
                                          ELSE OpeningsFirst(worker[r].silver)]
    /\ UNCHANGED <<raceFrame, GoldSinks, overlapped>>

\* lines 285-292: load_file
load_dim_openings_upload(r) ==
    /\ worker[r].pc = "openings_upload"
    /\ dim_openings' = File(worker[r].df)
    /\ worker' = [worker EXCEPT ![r].pc = "date"]
    /\ UNCHANGED <<raceFrame, dim_date, dim_time_control, dim_results, fact, overlapped>>

load_dim_date_by(r) ==
    /\ worker[r].pc = "date"
    /\ dim_date' = File(IF check_for_blob(dim_date)
                        THEN DatesMerged(dim_date, worker[r].silver)
                        ELSE DatesFirst(worker[r].silver))
    /\ worker' = [worker EXCEPT ![r].pc = "time_control"]
    /\ UNCHANGED <<raceFrame, dim_openings, dim_time_control, dim_results, fact,
                   overlapped>>

load_dim_time_control_by(r) ==
    /\ worker[r].pc = "time_control"
    /\ dim_time_control' = File(IF check_for_blob(dim_time_control)
                                THEN TimeControlsMerged(dim_time_control, worker[r].silver)
                                ELSE TimeControlsFirst(worker[r].silver))
    /\ worker' = [worker EXCEPT ![r].pc = "results"]
    /\ UNCHANGED <<raceFrame, dim_openings, dim_date, dim_results, fact, overlapped>>

load_dim_results_by(r) ==
    /\ worker[r].pc = "results"
    /\ dim_results' = IF check_for_blob(dim_results) THEN dim_results
                      ELSE File(StaticResults)
    /\ worker' = [worker EXCEPT ![r].pc = "fact_check"]
    /\ UNCHANGED <<raceFrame, dim_openings, dim_date, dim_time_control, fact, overlapped>>

\* line 525
load_fact_table_check(r) ==
    /\ worker[r].pc = "fact_check"
    /\ worker' = [worker EXCEPT ![r].pc = "fact_select",
                                ![r].file_exists = check_for_blob(fact)]
    /\ overlapped' = IF Overlaps(r, "fact") THEN overlapped \cup {"fact"} ELSE overlapped
    /\ UNCHANGED <<raceFrame, GoldSinks>>

\* lines 533-601: the queries are evaluated by fetchdf (line 593, or line 141 when
\* file_exists is False)
load_fact_table_select(r) ==
    /\ worker[r].pc = "fact_select"
    /\ \E exec \in ExecDates :
          \E new \in NewFactTables(IF worker[r].file_exists THEN fact ELSE NoFile,
                   FactTable(Fct(worker[r].silver, exec), dim_date, dim_openings,
                             dim_results, dim_time_control)) :
             worker' = [worker EXCEPT ![r].pc = "fact_upload", ![r].df = new]
    /\ UNCHANGED <<raceFrame, GoldSinks, overlapped>>

\* line 603: load_file (lines 144-149)
load_fact_table_upload(r) ==
    /\ worker[r].pc = "fact_upload"
    /\ fact' = File(worker[r].df)
    /\ worker' = [worker EXCEPT ![r].pc = "done"]
    /\ UNCHANGED <<raceFrame, dim_openings, dim_date, dim_time_control, dim_results,
                   overlapped>>

InitRace ==
    /\ pc = "gold"
    /\ runs = 0
    /\ batch = <<2024, 1>>
    /\ status_code = 200
    /\ bronze = [b \in BatchIds |-> NoFile]
    /\ silver = NoFile
    /\ \E s \in Snapshots :
          /\ dim_openings = s[1]
          /\ dim_date = s[2]
          /\ dim_time_control = s[3]
          /\ dim_results = s[4]
          /\ fact = s[5]
    /\ done = {}
    /\ prev_fact_table = NoFile
    /\ exec_date = 1
    /\ run_start = GoldSinks
    /\ \E games \in [RaceRuns -> BagsUpTo(Games, MaxBatch) \ {EmptyBag}] :
          /\ games[1] # games[2]
          /\ worker = [r \in RaceRuns |->
                          [pc |-> "openings_check",
                           silver |-> File(Transformed(games[r])),
                           file_exists |-> FALSE,
                           df |-> EmptyBag]]
    /\ overlapped = {}

NextRace ==
    \E r \in RaceRuns :
        \/ load_dim_openings_check(r)
        \/ load_dim_openings_select(r)
        \/ load_dim_openings_upload(r)
        \/ load_dim_date_by(r)
        \/ load_dim_time_control_by(r)
        \/ load_dim_results_by(r)
        \/ load_fact_table_check(r)
        \/ load_fact_table_select(r)
        \/ load_fact_table_upload(r)

SpecRace == InitRace /\ [][NextRace]_vars

-----------------------------------------------------------------------------
(* Properties *)

\* the natural key columns
OpeningKey == "pgn_eco_url"
DateKey == "game_date"
TimeControlKey == "time_control"
GameKey == "game_url"

Keys(f, key) == {r[key] : r \in Rows(f)}

\* every row once, and no two rows with the same key
OneRowPerKey(f, key) ==
    /\ \A r \in Rows(f) : CopiesIn(r, f.rows) = 1
    /\ \A r, q \in Rows(f) : r[key] = q[key] => r = q

\* C1: after any sequence of load_fact_table runs, the first included, the fact
\* snapshot holds exactly one row per distinct game_url.
C1_OneRowPerGameUrl == OneRowPerKey(fact, GameKey)

\* the rows for game_url u
RowsOf(f, u) == {r \in Rows(f) : r.game_url = u}

\* a load_fact_table step that found a previous snapshot
FactMergeStep == pc = "gold" /\ pc' = "idle" /\ check_for_blob(fact)

\* C2: when load_fact_table merges a batch holding game_url u into a snapshot holding
\* u, the new snapshot has exactly one row for u: a row of the batch when the batch's
\* last_updated is the larger, the previous row when the previous last_updated is.
C2_NewerRowSupersedes ==
    [][FactMergeStep =>
        \A u \in Keys(fact, GameKey) \cap Keys(silver, GameKey) :
            /\ Cardinality(RowsOf(fact', u)) = 1
            /\ \A r \in RowsOf(fact', u) : CopiesIn(r, fact'.rows) = 1
            /\ (\A o \in RowsOf(fact, u) : o.last_updated < exec_date')
                  => /\ RowsOf(fact', u) \subseteq BagToSet(Fct(silver, exec_date'))
                     /\ \A r \in RowsOf(fact', u) : r.last_updated = exec_date'
            /\ (\A o \in RowsOf(fact, u) : o.last_updated > exec_date')
                  => RowsOf(fact', u) \subseteq RowsOf(fact, u)]_vars

\* C2 witness: a merge replaced the previous row of a game by a newer row with other
\* column values.
C2_Witness ==
    /\ pc = "idle"
    /\ check_for_blob(prev_fact_table)
    /\ \E o \in Rows(prev_fact_table), r \in Rows(fact) :
          /\ o.game_url = r.game_url
          /\ o.last_updated < r.last_updated
          /\ o.my_rating # r.my_rating
          /\ r.last_updated = exec_date
          /\ Cardinality(RowsOf(fact, r.game_url)) = 1

\* the fct row has no match in the dimension
Unmatched(dim, key, k) == Matching(dim, key, k, NullStr) = 0

\* C3: after load_fact_table, every row of the batch has a row for its game_url in the
\* fact snapshot, whatever the dimension snapshots hold.
C3_NoRowDropped ==
    (pc = "idle" /\ check_for_blob(silver)) =>
        \A s \in Rows(silver) : RowsOf(fact, s.game_url) # {}

\* C3 witness: a published batch row whose result code and time control match no
\* dimension row.
C3_Witness ==
    /\ pc = "idle"
    /\ check_for_blob(silver)
    /\ \E s \in Rows(silver) : \E r \in RowsOf(fact, s.game_url) :
          /\ r \in BagToSet(Fct(silver, exec_date))
          /\ Unmatched(dim_results, "result_code", r.my_result)
          /\ Unmatched(dim_time_control, TimeControlKey, r.time_control)

\* C4: each of the Opening, Date and TimeControl snapshots holds at most one row per
\* natural key, from the first run on.
C4_OneRowPerDimensionKey ==
    /\ OneRowPerKey(dim_openings, OpeningKey)
    /\ OneRowPerKey(dim_date, DateKey)
    /\ OneRowPerKey(dim_time_control, TimeControlKey)

\* the rows of old are all in new, and new adds no row under a key old holds
FirstWriteWins(old, new, key) ==
    /\ Rows(old) \subseteq Rows(new)
    /\ \A r \in Rows(new) \ Rows(old) : r[key] \notin Keys(old, key)

\* C5: a dimension merge against an existing snapshot keeps every existing row and
\* adds no row whose natural key the snapshot already holds.
C5_FirstWriteWins ==
    [][pc = "gold" =>
        /\ check_for_blob(dim_openings)
              => FirstWriteWins(dim_openings, dim_openings', OpeningKey)
        /\ check_for_blob(dim_date) => FirstWriteWins(dim_date, dim_date', DateKey)
        /\ check_for_blob(dim_time_control)
              => FirstWriteWins(dim_time_control, dim_time_control', TimeControlKey)]_vars

\* C6: after a dimension merge against an existing snapshot, every natural key of the
\* batch is in the new snapshot.
C6_AllBatchKeysPresent ==
    [][pc = "gold" =>
        /\ (check_for_blob(dim_openings) /\ "openings" \in done')
              => \A s \in Rows(silver) :
                    OpeningRow(s)[OpeningKey] \in Keys(dim_openings', OpeningKey)
        /\ (check_for_blob(dim_date) /\ "date" \in done')
              => \A s \in Rows(silver) :
                    DateRow(s.game_date)[DateKey] \in Keys(dim_date', DateKey)
        /\ (check_for_blob(dim_time_control) /\ "time_control" \in done')
              => \A s \in Rows(silver) :
                    TimeControlRow(s)[TimeControlKey]
                       \in Keys(dim_time_control', TimeControlKey)]_vars

\* C7: a dimension merge run again with the same batch leaves the snapshot as the
\* first run wrote it.
C7_MergeIdempotent ==
    [][pc = "gold" =>
        /\ "openings" \in done => dim_openings' = dim_openings
        /\ "date" \in done => dim_date' = dim_date
        /\ "time_control" \in done => dim_time_control' = dim_time_control]_vars

\* C8: a fetch that gets a non-200 response aborts the run and leaves the bronze blobs
\* as they were.
C8_FetchFailureAborts ==
    [][(pc = "idle" /\ runs' = runs + 1 /\ status_code' # 200) =>
        /\ pc' = "failed"
        /\ bronze' = bronze]_vars

\* the silver column a tag is extracted into
TagColumn(s, tag) ==
    CASE tag = "Event" -> s.pgn_event
      [] tag = "Site" -> s.pgn_site
      [] tag = "Date" -> s.game_date
      [] tag = "White" -> s.pgn_white_user
      [] tag = "Black" -> s.pgn_black_user
      [] tag = "Result" -> s.pgn_result
      [] tag = "CurrentPosition" -> s.pgn_current_position
      [] tag = "Timezone" -> s.pgn_timezone
      [] tag = "ECO" -> s.pgn_eco
      [] tag = "ECOUrl" -> s.pgn_eco_url
      [] tag = "StartTime" -> s.start_time
      [] tag = "EndTime" -> s.end_time
      [] tag = "EndDate" -> s.end_game_date

EmptyValues == {"", NullStr}

\* C9: the transform of a batch whose games miss tags does not raise: every game gets
\* a silver row, with an empty value in the column of each tag it misses.
C9_MissingTagDoesNotRaise ==
    (pc # "fetched" /\ bronze[BronzeBlob(batch)].rows # EmptyBag) =>
        /\ pc # "failed"
        /\ check_for_blob(silver)
        /\ \A g \in Rows(bronze[BronzeBlob(batch)]) :
              \E s \in Rows(silver) :
                 /\ s.game_url = g.url
                 /\ \A tag \in (Tags \ ParsedTags) \ DOMAIN g.pgn :
                       TagColumn(s, tag) \in EmptyValues

\* the timestamp two tags spell, read off the tag text
TagTimestamp(date, time) ==
    [date |-> <<Numeral[date[1]], Numeral[date[3]], Numeral[date[5]]>>,
     time |-> <<Numeral[time[1]], Numeral[time[3]], Numeral[time[5]]>>]

\* a is not later than b, compared field by field
NotLater(a, b) ==
    LET x == a.date \o a.time
        y == b.date \o b.time
    IN  \/ x = y
        \/ \E i \in 1..6 : x[i] < y[i] /\ \A j \in 1..(i - 1) : x[j] = y[j]

\* C10: a fact row's start is (Date, StartTime) and its end (EndDate, EndTime) of its
\* game; the game from 23:58:00 to 00:03:00 of the next day lasts 300 seconds, and no
\* game that ends after it starts has a negative duration.
C10_DurationFromOwnDates ==
    \A r \in Rows(fact) :
        /\ \E g \in ParseGames \cup Games :
              /\ g.url = r.game_url
              /\ {"Date", "StartTime", "EndDate", "EndTime"} \subseteq DOMAIN g.pgn
              /\ r.start_time = TagTimestamp(g.pgn.Date, g.pgn.StartTime)
              /\ r.end_time = TagTimestamp(g.pgn.EndDate, g.pgn.EndTime)
        /\ NotLater(r.start_time, r.end_time) => r.game_duration_secs >= 0
        /\ r.game_url = "u1" => r.game_duration_secs = 300

\* C10 witness: a published game that ends 300 seconds after it starts, on the next day.
C10_Witness ==
    \E r \in Rows(fact) :
        /\ r.start_time = [date |-> <<2024, 1, 31>>, time |-> <<23, 58, 0>>]
        /\ r.end_time = [date |-> <<2024, 2, 1>>, time |-> <<0, 3, 0>>]
        /\ r.game_duration_secs = 300

\* the result codes of a silver row
ResultCodes(s) == {s.white_result, s.black_result}

\* C11: once load_dim_results has run in a DAG run, every result code of the batch is in
\* the Result snapshot, on the first run and on a run against an existing snapshot.
C11_AllResultCodesPresent ==
    (pc = "gold" /\ "results" \in done) =>
        \A s \in Rows(silver) : ResultCodes(s) \subseteq Keys(dim_results, "result_code")

\* a load_fact_table step
FactLoadStep == pc = "gold" /\ pc' = "idle"

\* C14: a load_fact_table run keeps every game_url of the previous snapshot, and
\* carries every row whose game_url is not in the batch into the new snapshot unchanged.
C14_FactCumulative ==
    [][FactLoadStep =>
        /\ Keys(fact, GameKey) \subseteq Keys(fact', GameKey)
        /\ \A r \in Rows(fact) :
              r.game_url \notin Keys(silver, GameKey) => r \in Rows(fact')]_vars

\* C12: a DAG run that failed has published nothing: each of the five gold blobs holds
\* what it held when the run started, also when load_fact_table fails after the four
\* dimension tasks have run.
C12_FailedRunPublishesNothing == pc = "failed" => GoldSinks = run_start

BothRunsDone == \A r \in RaceRuns : worker[r].pc = "done"

\* the keys that run r's batch contributes to a sink
Contributed(r, key) == Keys(worker[r].silver, key)

\* C13: when two concurrent runs have finished and their read-merge-writes of a sink
\* did not overlap, the sink holds the keys contributed by both runs (the opening
\* dimension and the fact snapshot).
C13_SerializedKeepsBoth ==
    BothRunsDone =>
        /\ "openings" \notin overlapped =>
              \A r \in RaceRuns :
                 Contributed(r, OpeningKey) \subseteq Keys(dim_openings, OpeningKey)
        /\ "fact" \notin overlapped =>
              \A r \in RaceRuns : Contributed(r, GameKey) \subseteq Keys(fact, GameKey)

\* C13: a lost update: both runs have finished, and the opening dimension and the fact
\* snapshot each lack a key that one of the runs contributed
C13_LostUpdate ==
    /\ BothRunsDone
    /\ \E r \in RaceRuns :
          ~(Contributed(r, OpeningKey) \subseteq Keys(dim_openings, OpeningKey))
    /\ \E r \in RaceRuns : ~(Contributed(r, GameKey) \subseteq Keys(fact, GameKey))

=============================================================================
